---- MODULE Spec2Model ----
(***************************************************************************)
(* The request lifecycle of next-request: FormRequest.validate() with its  *)
(* hooks, the accessors of an instance, and the rate-limit helper          *)
(* (checkRateLimit over MemoryRateLimitStore).                             *)
(*                                                                         *)
(* validate() is an async function: every stage is awaited, so each `await`*)
(* is a point where time passes and where other requests run.  One action  *)
(* of the model is the code between two awaits.  User-supplied callbacks   *)
(* (authorize, the hooks, the adapter, key/skip) are inputs: what they     *)
(* return, mutate or throw is drawn with \E at the step that calls them.   *)
(***************************************************************************)
EXTENDS Integers, Sequences, FiniteSets, TLC

(***************************************************************************)
(* Bounds of the model.                                                    *)
(***************************************************************************)
\* the latest time, the highest count of a window, the most parts of a form
\* submission, the most issues of a failed schema validation, and the most
\* runs of a hook that counts its runs
MaxClock == 1500
MaxCount == 3
MaxParts == 2
MaxIssues == 3
MaxRuns == 2

TickChoices == {500}
WindowChoices == {1000}
MaxAttemptsChoices == {1, 2}
Keys == {"ratelimit:ip1"}
Instances == {1, 2}
Active == {1}

(***************************************************************************)
(* Program constants.                                                      *)
(***************************************************************************)
MsPerSecond == 1000

\* the number of entries above which set() cleans the store up: 1000 in the
\* source, scaled down so that the keys of StoreKeys can cross it
CleanupThreshold == 2
StoreKeys == {"ratelimit:ip1", "ratelimit:ip2", "ratelimit:ip3", "ratelimit:ip4"}

(***************************************************************************)
(* JavaScript values.  A mapping (plain object) is a set of <<key, value>> *)
(* pairs with distinct keys.                                               *)
(***************************************************************************)
JUndefined == [t |-> "undefined"]
JNull == [t |-> "null"]
JStr(s) == [t |-> "string", v |-> s]
JBool(b) == [t |-> "boolean", v |-> b]
JObj(m) == [t |-> "object", v |-> m]
JArr(s) == [t |-> "array", v |-> s]

HasKey(m, k) == \E p \in m : p[1] = k
Lookup(m, k) == IF HasKey(m, k) THEN (CHOOSE p \in m : p[1] = k)[2] ELSE JUndefined
Without(m, ks) == {p \in m : p[1] \notin ks}
Put(m, k, v) == Without(m, {k}) \cup {<<k, v>>}
KeysOf(m) == {p[1] : p \in m}

\* mutant: on a key of both, the value of the first mapping is kept
MergeFirstWins(a, b) == Without(b, KeysOf(a)) \cup a

\* { ...a, ...b }
Merge(a, b) == Without(a, KeysOf(b)) \cup b

\* if (x): the falsy values
Truthy(x) == x \notin {JUndefined, JNull, JStr(""), JBool(FALSE)}

\* a || b
Or(a, b) == IF Truthy(a) THEN a ELSE b

\* a ?? b
Nullish(a, b) == IF a = JNull \/ a = JUndefined THEN b ELSE a

\* { ...x }: the own enumerable properties of x; none for null, undefined, booleans
Spread(x) ==
    CASE x.t = "object" -> x.v
      [] x.t = "array" -> {<<i, x.v[i]>> : i \in DOMAIN x.v}
      [] OTHER -> {}

Max(a, b) == IF a >= b THEN a ELSE b

\* Math.ceil(a / b) for integers a and b > 0
Ceil(a, b) == -((-a) \div b)

(***************************************************************************)
(* State.                                                                  *)
(*   now      Date.now()                                                   *)
(*   store    MemoryRateLimitStore.store: key -> the RateLimitState object *)
(*            it holds (NoState: no entry)                                 *)
(* and, per FormRequest instance,                                          *)
(*   pc       where its validate() run is suspended ("idle": no run)       *)
(*   body, query, params, headers, p_validated, p_safe: its fields         *)
(*   router   which factory built it ("app" or "pages")                    *)
(*   rl       checkRateLimit's locals across `await store.increment`: the  *)
(*            reference `state` and maxAttempts.  The reference is to the  *)
(*            object the store holds for rl.key while rl.alias holds; once *)
(*            the store drops that object, rl.state is the object itself   *)
(*            (nobody else can reach it any more)                          *)
(*   result   validate()'s `result` of checkRateLimit (block-scoped)       *)
(*   isAuthorized: validate()'s local                                      *)
(*   errors   validate()'s `errors` (block-scoped)                         *)
(*   calls    the stages the current (or last) run has invoked, in order   *)
(*   results  how the current (or last) run ended: what it threw/returned  *)
(*   nth      the count this run's own increment produced: its ordinal in  *)
(*            the window (0: it made none)                                 *)
(*   adapterOk, succeeded: whether some run had the adapter report success,*)
(*            respectively returned normally                               *)
(*   request  the raw request the instance is built from                   *)
(*   wrapper  the callable of withSchema.ts / withRequest.ts serving the   *)
(*            request, with its options and where it is suspended          *)
(*            (NoWrapper: validate() is called directly)                   *)
(*   handled  the data the downstream handler was invoked with, in order   *)
(*   outcome  what the callable returned or threw                          *)
(*   shares   whether this.body and the parsed body held by the raw        *)
(*            request are one object                                       *)
(*   subtype  the concrete request class of the instance: its hooks and    *)
(*            schema, or AnySubtype (every call of a hook is an input)     *)
(*   formatted  the FieldErrors an adapter has built from the issues of a  *)
(*            failed schema validation, and their flattened messages       *)
(***************************************************************************)
VARIABLES now, store, pc, body, shares, query, params, headers, router,
          p_validated, p_safe, rl, result, isAuthorized, errors,
          calls, results, nth, adapterOk, succeeded,
          request, wrapper, handled, outcome,
          subtype, formatted

sharedVars == <<now, store>>
requestVars == <<query, params, headers, router>>
fieldVars == <<body, shares, p_validated, p_safe>>
localVars == <<rl, result, isAuthorized, errors>>
ghostVars == <<calls, results, nth, adapterOk, succeeded>>
wrapperVars == <<request, wrapper, handled, outcome>>
classVars == <<subtype, formatted>>
vars == <<now, store, pc, body, shares, query, params, headers, router,
          p_validated, p_safe, rl, result, isAuthorized, errors,
          calls, results, nth, adapterOk, succeeded,
          request, wrapper, handled, outcome,
          subtype, formatted>>

NoState == [count |-> 0, resetAt |-> 0]
NoRl == [alias |-> FALSE, none |-> TRUE]
NoResult == [allowed |-> TRUE, none |-> TRUE]
NoErrors == [t |-> "unset"]
NoWrapper == [name |-> "none", at |-> "none"]

(***************************************************************************)
(* Building an instance from a raw request: fromAppRouter, fromPagesRouter,*)
(* and parseRequestBody of the schema-only wrappers.  A form submission is *)
(* the sequence of its <<name, value>> entries, in part order.             *)
(***************************************************************************)
PartNames == {"tags", "name"}
PartValues == {"a", "b"}
Entries == UNION {[1..n -> PartNames \X PartValues] : n \in 0..MaxParts}
Searches == {<<>>, <<<<"tags", "a">>, <<"tags", "b">>>>}
JsonBodies == { {<<"name", JStr("a")>>} }
ContentTypes ==
    {"application/json", "application/x-www-form-urlencoded",
     "multipart/form-data; boundary=x", "text/plain"}
Methods == {"POST", "GET"}
BodyMethods == {"POST", "PUT", "PATCH", "DELETE"}

\* contentType.includes(s)
includes(contentType, s) ==
    \/ contentType = s
    \/ contentType = "multipart/form-data; boundary=x" /\ s = "multipart/form-data"

\* a Request of the App Router; malformed: reading its body throws
AppRequest(method, contentType, entries, json, malformed, search) ==
    [router |-> "app", method |-> method, contentType |-> contentType,
     entries |-> entries, json |-> json, malformed |-> malformed, search |-> search,
     routeParams |-> {<<"id", JStr("7")>>}, headers |-> {<<"x-id", JStr("h")>>}]

\* a NextApiRequest of the Pages Router: body and query are parsed by the host
PagesRequest(b, q, routeParams) ==
    [router |-> "pages", body |-> b, query |-> q, routeParams |-> routeParams,
     headers |-> {<<"x-id", JStr("h")>>}]

AppRequests ==
    {AppRequest(m, ct, es, {}, mal, <<>>) :
       m \in Methods, ct \in ContentTypes \ {"application/json"},
       es \in Entries, mal \in BOOLEAN}
    \cup {AppRequest(m, "application/json", <<>>, j, mal, q) :
            m \in Methods, j \in JsonBodies, mal \in BOOLEAN, q \in Searches}

PagesRequests ==
    {PagesRequest(b, q, rp) :
       b \in {JUndefined, JNull, JObj({<<"name", JStr("true")>>, <<"opt", JNull>>})},
       q \in { {}, {<<"opt", JStr("q")>>, <<"id", JStr("9")>>} },
       rp \in { {}, {<<"id", JStr("7")>>, <<"slug", JStr("s")>>} }}

\* Object.fromEntries(entries): a later entry of a name replaces the earlier
RECURSIVE fromEntries(_)
fromEntries(entries) ==
    IF entries = <<>> THEN {}
    ELSE LET n == Len(entries)
         IN Put(fromEntries(SubSeq(entries, 1, n - 1)), entries[n][1], JStr(entries[n][2]))

\* url.searchParams.forEach: a repeated key collects its values in an array
RECURSIVE searchParamsToQuery(_)
searchParamsToQuery(entries) ==
    IF entries = <<>> THEN {}
    ELSE LET n == Len(entries)
             q == searchParamsToQuery(SubSeq(entries, 1, n - 1))
             key == entries[n][1]
             value == JStr(entries[n][2])
             existing == Lookup(q, key)
         IN IF existing # JUndefined
            THEN Put(q, key, IF existing.t = "array"
                             THEN JArr(Append(existing.v, value))
                             ELSE JArr(<<existing, value>>))
            ELSE Put(q, key, value)

\* formData.forEach of parseRequestBody: a repeated key whose value so far is
\* truthy collects its values in an array
RECURSIVE formDataToObject(_)
formDataToObject(entries) ==
    IF entries = <<>> THEN {}
    ELSE LET n == Len(entries)
             data == formDataToObject(SubSeq(entries, 1, n - 1))
             key == entries[n][1]
             value == JStr(entries[n][2])
         IN IF Truthy(Lookup(data, key))
            THEN Put(data, key, IF Lookup(data, key).t = "array"
                                THEN JArr(Append(Lookup(data, key).v, value))
                                ELSE JArr(<<Lookup(data, key), value>>))
            ELSE Put(data, key, value)

\* what a block that assigns instance.body ends with: the body it leaves,
\* and whether an exception is leaving the block
Parsed(b) == [threw |-> FALSE, value |-> b]
ParseFailure == [threw |-> TRUE, value |-> {}]

\* the try block of fromAppRouter: reading the clone of a malformed request
\* throws before instance.body is assigned
tryBody(req) ==
    IF includes(req.contentType, "application/json")
    THEN IF req.malformed THEN ParseFailure ELSE Parsed(req.json)
    ELSE IF includes(req.contentType, "application/x-www-form-urlencoded")
    THEN IF req.malformed THEN ParseFailure ELSE Parsed(fromEntries(req.entries))
    ELSE IF includes(req.contentType, "multipart/form-data")
    THEN IF req.malformed THEN ParseFailure ELSE Parsed(fromEntries(req.entries))
    ELSE Parsed({})

\* mutant: the try block has no catch clause
CatchNothing(r) == r

\* catch { instance.body = {} }
Catch(r) == IF r.threw THEN Parsed({}) ELSE r

\* the body parsing of fromAppRouter as a whole
parseBody(req) ==
    IF req.method \notin BodyMethods THEN Parsed({}) ELSE Catch(tryBody(req))

\* the body fromAppRouter gives the instance
fromAppRouterBody(req) == parseBody(req).value

\* parseRequestBody(request)
parseRequestBody(req) ==
    IF includes(req.contentType, "application/json")
    THEN IF req.malformed THEN {} ELSE req.json
    ELSE IF \/ includes(req.contentType, "application/x-www-form-urlencoded")
            \/ includes(req.contentType, "multipart/form-data")
    THEN IF req.malformed THEN {} ELSE formDataToObject(req.entries)
    ELSE {}

\* static async fromAppRouter(request, params): the fields of the new instance;
\* the body is parsed from a clone of the request
appInstance(req, routeParams) ==
    [params |-> routeParams,
     headers |-> req.headers,
     query |-> searchParamsToQuery(req.search),
     body |-> fromAppRouterBody(req),
     shares |-> FALSE]

\* static async fromPagesRouter(request, params): the fields of the new
\* instance; instance.body is request.body itself unless that is null or
\* undefined
pagesInstance(req, routeParams) ==
    [params |-> Merge(routeParams, req.query),
     headers |-> req.headers,
     query |-> req.query,
     body |-> Spread(Nullish(req.body, JObj({}))),
     shares |-> req.body \notin {JNull, JUndefined}]

\* instance i becomes the instance f
Assigned(i, f) ==
    /\ params' = [params EXCEPT ![i] = f.params]
    /\ headers' = [headers EXCEPT ![i] = f.headers]
    /\ query' = [query EXCEPT ![i] = f.query]
    /\ body' = [body EXCEPT ![i] = f.body]
    /\ shares' = [shares EXCEPT ![i] = f.shares]

fromAppRouter(i, req, routeParams) == Assigned(i, appInstance(req, routeParams))

fromPagesRouter(i, req, routeParams) == Assigned(i, pagesInstance(req, routeParams))

\* the instance a host has built for request req
Constructed(req) ==
    IF req.router = "app"
    THEN appInstance(req, req.routeParams)
    ELSE pagesInstance(req, req.routeParams)

(***************************************************************************)
(* The requests an instance is built from, and the instance before any run.*)
(***************************************************************************)
RawRequests ==
    { AppRequest("GET", "text/plain", <<>>, {}, FALSE, <<<<"name", "q">>>>),
      AppRequest("POST", "application/json", <<>>, {<<"name", JStr("a")>>}, FALSE, <<>>),
      PagesRequest(JObj({<<"name", JStr("true")>>, <<"opt", JNull>>}),
                   {<<"opt", JStr("q")>>, <<"id", JStr("9")>>}, {}) }

\* a subtype whose hooks and schema are inputs of every call
AnySubtype == [beforeValidation |-> "any"]

NoFormatting == [at |-> "none"]

\* the state of the instances before any validate() run
FreshInstances ==
    /\ pc = [i \in Instances |-> "idle"]
    /\ p_validated = [i \in Instances |-> JNull]
    /\ p_safe = [i \in Instances |-> JObj({})]
    /\ rl = [i \in Instances |-> NoRl]
    /\ result = [i \in Instances |-> NoResult]
    /\ isAuthorized = [i \in Instances |-> "unset"]
    /\ errors = [i \in Instances |-> NoErrors]
    /\ calls = [i \in Instances |-> <<>>]
    /\ results = [i \in Instances |-> <<>>]
    /\ nth = [i \in Instances |-> 0]
    /\ adapterOk = [i \in Instances |-> FALSE]
    /\ succeeded = [i \in Instances |-> FALSE]
    /\ wrapper = [i \in Instances |-> NoWrapper]
    /\ handled = [i \in Instances |-> <<>>]
    /\ outcome = [i \in Instances |-> <<>>]

\* the state of the instances and of the store before any validate() run
Fresh ==
    /\ now = 0
    /\ store = [k \in Keys |-> NoState]
    /\ FreshInstances
    /\ subtype = [i \in Instances |-> AnySubtype]
    /\ formatted = NoFormatting

\* instance i has been built for request[i]
BuiltFor(reqs) ==
    /\ request \in [Instances -> reqs]
    /\ body = [i \in Instances |-> Constructed(request[i]).body]
    /\ shares = [i \in Instances |-> Constructed(request[i]).shares]
    /\ query = [i \in Instances |-> Constructed(request[i]).query]
    /\ params = [i \in Instances |-> Constructed(request[i]).params]
    /\ headers = [i \in Instances |-> Constructed(request[i]).headers]
    /\ router = [i \in Instances |-> request[i].router]

Init ==
    /\ Fresh
    /\ BuiltFor(RawRequests)
    /\ \A i \in Instances : request[i] = request[1]

(***************************************************************************)
(* Time passes (between any two steps: every stage is awaited).            *)
(***************************************************************************)
Tick ==
    /\ \E d \in TickChoices : now + d <= MaxClock /\ now' = now + d
    /\ UNCHANGED <<store, pc, requestVars, wrapperVars, classVars, fieldVars, localVars, ghostVars>>

(***************************************************************************)
(* MemoryRateLimitStore                                                    *)
(***************************************************************************)
\* mutant: the window already counts as passed at resetAt itself
ExpiredAtResetAt(state, t) == t >= state.resetAt

\* Date.now() > state.resetAt
Expired(state, t) == t > state.resetAt

\* the window a first request opens
NewWindow(t, windowMs) == [count |-> 1, resetAt |-> t + windowMs]

\* if (!existing || now > existing.resetAt)
StartsNewWindow(existing, t) == existing = NoState \/ Expired(existing, t)

\* mutant: a request within the window leaves the count as it is
NotIncremented(existing) == existing

\* existing.count++
Incremented(existing) == [existing EXCEPT !.count = @ + 1]

\* the object the key maps to once increment(key, windowMs) has run at time t
incrementState(existing, t, windowMs) ==
    IF StartsNewWindow(existing, t) THEN NewWindow(t, windowMs) ELSE Incremented(existing)

\* the references of suspended callers once the store has dropped the object of
\* key: they keep the object, which nothing else reaches any more
Dropped(key, r) ==
    [j \in Instances |->
       IF r[j].alias /\ r[j].key = key
       THEN [alias |-> FALSE, state |-> store[key], maxAttempts |-> r[j].maxAttempts]
       ELSE r[j]]

\* increment(key, windowMs) called by instance i (0: by another request); the
\* caller is handed a reference to the object the store holds
increment(key, windowMs, i, maxAttempts) ==
    LET existing == store[key]
        mine == [alias |-> TRUE, key |-> key, maxAttempts |-> maxAttempts]
        kept == IF StartsNewWindow(existing, now) THEN Dropped(key, rl) ELSE rl
    IN /\ existing.count < MaxCount \/ StartsNewWindow(existing, now)
       /\ store' = [store EXCEPT ![key] = incrementState(existing, now, windowMs)]
       /\ rl' = [j \in Instances |-> IF j = i THEN mine ELSE kept[j]]

\* what get(key) returns
getResult(key) ==
    IF store[key] = NoState \/ Expired(store[key], now) THEN JNull ELSE JObj(store[key])

\* get(key): an expired entry is deleted
get(key) ==
    /\ IF store[key] # NoState /\ Expired(store[key], now)
       THEN /\ store' = [store EXCEPT ![key] = NoState]
            /\ rl' = Dropped(key, rl)
       ELSE UNCHANGED <<store, rl>>
    /\ UNCHANGED <<now, pc, requestVars, wrapperVars, classVars, fieldVars, result, isAuthorized, errors, ghostVars>>

StoreGet == \E k \in DOMAIN store : get(k)

\* this.store.size
size(st) == Cardinality({k \in DOMAIN st : st[k] # NoState})

\* cleanup(): every entry whose window has passed is deleted
cleanup(st, t) ==
    [k \in DOMAIN st |-> IF st[k] # NoState /\ Expired(st[k], t) THEN NoState ELSE st[k]]

\* the references of suspended callers once the store holds st
Kept(st, r) ==
    [j \in Instances |->
       IF r[j].alias /\ st[r[j].key] # store[r[j].key]
       THEN [alias |-> FALSE, state |-> store[r[j].key], maxAttempts |-> r[j].maxAttempts]
       ELSE r[j]]

\* set(key, state, ttlMs): the entry is stored, and a store of more than
\* CleanupThreshold entries is cleaned up
set(key, state) ==
    LET stored == [store EXCEPT ![key] = state]
        st == IF size(stored) > CleanupThreshold THEN cleanup(stored, now) ELSE stored
    IN /\ store' = st
       /\ rl' = Kept(st, rl)
       /\ UNCHANGED <<now, pc, requestVars, wrapperVars, classVars, fieldVars, result,
                      isAuthorized, errors, ghostVars>>

StoreSet ==
    \E k \in DOMAIN store, w \in WindowChoices :
      set(k, [count |-> 1, resetAt |-> now + w])

(***************************************************************************)
(* checkRateLimit                                                          *)
(***************************************************************************)
RateLimitConfigs ==
    [maxAttempts : MaxAttemptsChoices, windowMs : WindowChoices,
     key : Keys, skip : BOOLEAN]

\* the result of a skipped check
SkipResult(config, t) ==
    [allowed |-> TRUE, remaining |-> config.maxAttempts, limit |-> config.maxAttempts,
     resetAt |-> t + config.windowMs, retryAfter |-> 0]

Allowed(count, maxAttempts) == count <= maxAttempts

Remaining(count, maxAttempts) == Max(0, maxAttempts - count)

RetryAfter(allowed, resetAt, t) ==
    IF allowed THEN 0 ELSE Ceil(resetAt - t, MsPerSecond)

\* the result computed from the state object, read after the await
RateLimitResultOf(state, maxAttempts, t) ==
    [allowed |-> Allowed(state.count, maxAttempts),
     remaining |-> Remaining(state.count, maxAttempts),
     limit |-> maxAttempts,
     resetAt |-> state.resetAt,
     retryAfter |-> RetryAfter(Allowed(state.count, maxAttempts), state.resetAt, t)]

RateLimitError(r) ==
    [kind |-> "RateLimitError", retryAfter |-> r.retryAfter, remaining |-> r.remaining,
     limit |-> r.limit, resetAt |-> r.resetAt]

\* the object the reference `state` of instance i points to
StateOf(i) == IF rl[i].alias THEN store[rl[i].key] ELSE rl[i].state

\* another request's checkRateLimit reaching the shared store
PeerCheckRateLimit ==
    /\ \E k \in DOMAIN store, w \in WindowChoices : increment(k, w, 0, 0)
    /\ UNCHANGED <<now, pc, requestVars, wrapperVars, classVars, fieldVars, result, isAuthorized, errors, ghostVars>>

(***************************************************************************)
(* Coercion (coerceFormData): each string leaf is replaced by the first    *)
(* enabled rule that matches; a custom field transform takes precedence    *)
(* and its exception propagates.                                           *)
(***************************************************************************)
CoercionChoices ==
    { [booleans |-> TRUE, fieldThrows |-> FALSE],
      [booleans |-> FALSE, fieldThrows |-> FALSE],
      [booleans |-> TRUE, fieldThrows |-> TRUE] }

coerceValue(v, options) ==
    IF v.t = "string" /\ options.booleans /\ v.v \in {"true", "false"}
    THEN JBool(v.v = "true")
    ELSE v

coerceFormData(data, options) == {<<p[1], coerceValue(p[2], options)>> : p \in data}

(***************************************************************************)
(* FormRequest.validate(), one action per stretch of code between awaits.  *)
(***************************************************************************)
\* mutant: the exception of a callback is turned into a typed failure
ExceptionAsValidationError(from) == [kind |-> "ValidationError", from |-> from]
Exception(from) == [kind |-> "exception", from |-> from]
\* mutant: an untyped error is thrown for an unauthorized request
UntypedError == [kind |-> "Error", message |-> "Unauthorized"]
AuthorizationError == [kind |-> "AuthorizationError", message |-> "Unauthorized"]
\* mutant: the error does not carry the errors given to the hook
ValidationErrorWithoutErrors(errs) == [kind |-> "ValidationError", errors |-> JObj({})]
ValidationError(errs) == [kind |-> "ValidationError", errors |-> errs]
Returned(data) == [kind |-> "return", data |-> data]

\* the run of instance i ends: it throws e or returns
Ends(i, e) ==
    /\ results' = [results EXCEPT ![i] = Append(@, e)]
    /\ pc' = [pc EXCEPT ![i] = "idle"]

Goes(i, stage) ==
    /\ pc' = [pc EXCEPT ![i] = stage]
    /\ UNCHANGED results

Called(i, stage) == calls' = [calls EXCEPT ![i] = Append(@, stage)]

\* a run of instance i has ended (and no other has started)
Ended(i) == pc[i] = "idle" /\ results[i] # <<>>

\* mutant: the over-limit result is not acted on
RateLimitedNever(r) == FALSE

\* if (!result.allowed) throw new RateLimitError(...)
RateLimited(r) == ~r.allowed

\* mutant: the result of authorize() is not acted on
AfterAuthorizeIgnoringResult(a) == "coercion"

\* mutant: the hook runs whatever authorize() resolved to
AfterAuthorizeHookAlways(a) == "onAuthorizationFailed"

\* if (!isAuthorized) { await this.onAuthorizationFailed(); throw ... }
AfterAuthorize(a) == IF a = "false" THEN "onAuthorizationFailed" ELSE "coercion"

\* mutant: the adapter is called right after coercion
AfterCoercionSkipsHook == "rules"

\* the stage that follows coercion: await this.beforeValidation()
AfterCoercion == "beforeValidation"

\* result.errors ?? { _error: ['Validation failed'] }
DefaultErrors == JObj({<<"_error", <<"Validation failed">>>>})
ErrorsOf(r) == Nullish(r.errors, DefaultErrors)

\* what the hooks may leave in body, and what an adapter may report
HookBodies == { {<<"name", JStr("b")>>} }
AdapterData(data) == {JObj(data), JNull, JUndefined}
AdapterErrors == {JUndefined, JObj({<<"name", <<"Required">>>>})}
AdapterResults(data) ==
    {[success |-> TRUE, data |-> d, errors |-> JUndefined] : d \in AdapterData(data)}
    \cup {[success |-> FALSE, data |-> JUndefined, errors |-> e] : e \in AdapterErrors}

\* protected getDataForValidation()
getDataForValidation(i) == body[i]

\* the callbacks that run before the store is reached, each of which may
\* throw: rateLimit(), config.skip(request), config.key(request)
RateLimitCallbacks == {"rateLimit", "skip", "key"}

\* validate() up to its first await: rateLimit(), and checkRateLimit up to
\* `await store.increment(...)` (or to its return when skip() holds)
validate(i) ==
    /\ pc[i] = "idle"
    /\ isAuthorized' = [isAuthorized EXCEPT ![i] = "unset"]
    /\ result' = [result EXCEPT ![i] = NoResult]
    /\ errors' = [errors EXCEPT ![i] = NoErrors]
    /\ \/ /\ calls' = [calls EXCEPT ![i] = <<"rateLimit">>]
          /\ results' = [results EXCEPT ![i] = <<>>]
          /\ pc' = [pc EXCEPT ![i] = "authorize"]
          /\ nth' = [nth EXCEPT ![i] = 0]
          /\ UNCHANGED <<store, rl>>
       \/ \E config \in RateLimitConfigs :
            /\ calls' = [calls EXCEPT ![i] = <<"rateLimit">>]
            /\ results' = [results EXCEPT ![i] = <<>>]
            /\ pc' = [pc EXCEPT ![i] = "checkRateLimit"]
            /\ IF config.skip
               THEN /\ rl' = [rl EXCEPT ![i] = [alias |-> FALSE, skipped |-> TRUE,
                                                 state |-> SkipResult(config, now)]]
                    /\ nth' = [nth EXCEPT ![i] = 0]
                    /\ UNCHANGED store
               ELSE /\ increment(config.key, config.windowMs, i, config.maxAttempts)
                    /\ nth' = [nth EXCEPT ![i] = store'[config.key].count]
       \/ \E from \in RateLimitCallbacks :
            /\ calls' = [calls EXCEPT ![i] = <<"rateLimit">>]
            /\ results' = [results EXCEPT ![i] = <<Exception(from)>>]
            /\ nth' = [nth EXCEPT ![i] = 0]
            /\ UNCHANGED <<pc, store, rl>>
    /\ UNCHANGED <<now, requestVars, wrapperVars, classVars, fieldVars, adapterOk, succeeded>>

\* what checkRateLimit returns to instance i when it resumes at time t
checkRateLimitResult(i, t) ==
    IF rl[i].alias
    THEN RateLimitResultOf(StateOf(i), rl[i].maxAttempts, t)
    ELSE IF "skipped" \in DOMAIN rl[i]
    THEN rl[i].state
    ELSE RateLimitResultOf(StateOf(i), rl[i].maxAttempts, t)

\* checkRateLimit resumes after `await store.increment(...)`, computes the
\* result from the state object it holds, and validate() throws or goes on
checkRateLimit(i) ==
    /\ pc[i] = "checkRateLimit"
    /\ LET r == checkRateLimitResult(i, now)
       IN /\ result' = [result EXCEPT ![i] = r]
          /\ IF RateLimited(r) THEN Ends(i, RateLimitError(r)) ELSE Goes(i, "authorize")
    /\ rl' = [rl EXCEPT ![i] = NoRl]
    /\ nth' = [nth EXCEPT ![i] = 0]
    /\ UNCHANGED <<sharedVars, requestVars, wrapperVars, classVars, fieldVars, isAuthorized, errors,
                   calls, adapterOk, succeeded>>

\* const isAuthorized = await this.authorize()
authorize(i) ==
    /\ pc[i] = "authorize"
    /\ Called(i, "authorize")
    /\ \/ \E a \in {"true", "false"} :
            /\ isAuthorized' = [isAuthorized EXCEPT ![i] = a]
            /\ Goes(i, AfterAuthorize(a))
       \/ /\ Ends(i, Exception("authorize"))
          /\ UNCHANGED isAuthorized
    /\ result' = [result EXCEPT ![i] = NoResult]
    /\ UNCHANGED <<sharedVars, requestVars, wrapperVars, classVars, fieldVars, rl, errors,
                   nth, adapterOk, succeeded>>

\* await this.onAuthorizationFailed(); throw new AuthorizationError()
onAuthorizationFailed(i) ==
    /\ pc[i] = "onAuthorizationFailed"
    /\ Called(i, "onAuthorizationFailed")
    /\ \/ Ends(i, AuthorizationError)
       \/ Ends(i, Exception("onAuthorizationFailed"))
    /\ UNCHANGED <<sharedVars, requestVars, wrapperVars, classVars, fieldVars, localVars,
                   nth, adapterOk, succeeded>>

\* mutant: the body mapping is one object shared by all instances
setBodyShared(i, b) == [j \in Instances |-> b]

\* this.body = b, on instance i
setBody(i, b) == [body EXCEPT ![i] = b]

\* the raw request once a hook of instance i has written to the properties of
\* this.body, leaving it as b: the writes reach request.body when the two are
\* one object
written(i, b) ==
    IF shares[i] THEN [request EXCEPT ![i].body = JObj(b)] ELSE request

\* const coercionOptions = this.coercion(); if (coercionOptions) this.body = ...
coercion(i) ==
    /\ pc[i] = "coercion"
    /\ Called(i, "coercion")
    /\ \/ /\ Goes(i, AfterCoercion)
          /\ UNCHANGED <<body, shares>>
       \/ \E options \in CoercionChoices :
            IF options.fieldThrows /\ body[i] # {}
            THEN /\ Ends(i, Exception("coercion"))
                 /\ UNCHANGED <<body, shares>>
            ELSE /\ body' = setBody(i, coerceFormData(body[i], options))
                 /\ shares' = [shares EXCEPT ![i] = FALSE]
                 /\ Goes(i, AfterCoercion)
    /\ UNCHANGED <<sharedVars, requestVars, wrapperVars, classVars, p_validated, p_safe, localVars,
                   nth, adapterOk, succeeded>>

\* await this.beforeValidation()
beforeValidation(i) ==
    /\ pc[i] = "beforeValidation"
    /\ Called(i, "beforeValidation")
    /\ \/ /\ Goes(i, "rules")
          /\ UNCHANGED <<body, request>>
       \/ \E b \in HookBodies :
            /\ body' = setBody(i, b)
            /\ request' = written(i, b)
            /\ Goes(i, "rules")
       \/ /\ Ends(i, Exception("beforeValidation"))
          /\ UNCHANGED <<body, request>>
    /\ UNCHANGED <<sharedVars, requestVars, wrapper, handled, outcome, classVars, shares,
                   p_validated, p_safe, localVars,
                   nth, adapterOk, succeeded>>

\* mutant: the data is stored whatever the adapter reported
StoresValidatedAlways(r) == TRUE

\* if (!result.success) { ... } else the data is stored
StoresValidated(r) == r.success

\* const validator = this.rules(); const result = await validator.validate(...);
\* on failure the errors are kept for the hook, on success the data is stored
rules(i) ==
    /\ pc[i] = "rules"
    /\ Called(i, "rules")
    /\ \/ \E r \in AdapterResults(getDataForValidation(i)) :
            IF StoresValidated(r)
            THEN /\ p_validated' = [p_validated EXCEPT ![i] = r.data]
                 /\ p_safe' = [p_safe EXCEPT ![i] = r.data]
                 /\ adapterOk' = [adapterOk EXCEPT ![i] = r.success]
                 /\ Goes(i, "afterValidation")
                 /\ UNCHANGED errors
            ELSE /\ errors' = [errors EXCEPT ![i] = ErrorsOf(r)]
                 /\ Goes(i, "onValidationFailed")
                 /\ UNCHANGED <<p_validated, p_safe, adapterOk>>
       \/ /\ Ends(i, Exception("rules"))
          /\ UNCHANGED <<p_validated, p_safe, adapterOk, errors>>
    /\ UNCHANGED <<sharedVars, requestVars, wrapperVars, classVars, body, shares, rl, result, isAuthorized,
                   nth, succeeded>>

\* await this.onValidationFailed(errors); throw new ValidationError(errors)
onValidationFailed(i) ==
    /\ pc[i] = "onValidationFailed"
    /\ Called(i, "onValidationFailed")
    /\ \/ Ends(i, ValidationError(errors[i]))
       \/ Ends(i, Exception("onValidationFailed"))
    /\ UNCHANGED <<sharedVars, requestVars, wrapperVars, classVars, fieldVars, localVars,
                   nth, adapterOk, succeeded>>

\* await this.afterValidation(this._validated); return this._validated
afterValidation(i) ==
    /\ pc[i] = "afterValidation"
    /\ Called(i, "afterValidation")
    /\ \/ /\ Ends(i, Returned(p_validated[i]))
          /\ succeeded' = [succeeded EXCEPT ![i] = TRUE]
       \/ /\ Ends(i, Exception("afterValidation"))
          /\ UNCHANGED succeeded
    /\ UNCHANGED <<sharedVars, requestVars, wrapperVars, classVars, fieldVars, localVars,
                   nth, adapterOk>>

(***************************************************************************)
(* The accessors of an instance.  Each is a function of the fields and     *)
(* assigns none of them.                                                   *)
(***************************************************************************)
InputKeys == {"name", "opt", "id"}
HeaderNames == {"X-Id", "x-id", "accept"}

\* the string functions, on the strings of the model
toLowerCase(s) ==
    IF s = "X-Id" THEN "x-id"
    ELSE IF s = " A " THEN " a "
    ELSE IF s = "A" THEN "a"
    ELSE s

toUpperCase(s) ==
    IF s = " a " THEN " A "
    ELSE IF s = "a" THEN "A"
    ELSE IF s = "q" THEN "Q"
    ELSE s

trim(s) ==
    IF s = " A " THEN "A"
    ELSE IF s = " a " THEN "a"
    ELSE s

PlainError == [name |-> "Error"]

\* validated(): throws while _validated is null
validated(i) ==
    IF p_validated[i] = JNull
    THEN [threw |-> TRUE, error |-> PlainError]
    ELSE [threw |-> FALSE, value |-> p_validated[i]]

\* mutant: _safe is handed out as it is, not as a copy
safeWithoutCopy(i) == p_safe[i]

\* safe(): { ...this._safe }
safe(i) == JObj(Spread(p_safe[i]))

\* all(): { ...this.body }
all(i) == JObj(Spread(JObj(body[i])))

\* input(key, defaultValue): (this.body[key] ?? this.query[key]) ?? defaultValue
input(i, key, defaultValue) ==
    Nullish(Nullish(Lookup(body[i], key), Lookup(query[i], key)), defaultValue)

\* has(key): key in this.body || key in this.query
has(i, key) == HasKey(body[i], key) \/ HasKey(query[i], key)

\* only(...keys)
only(i, keys) == JObj({<<k, input(i, k, JUndefined)>> : k \in {x \in keys : has(i, x)}})

\* except(...keys)
except(i, keys) == JObj(Without(body[i], keys))

\* param(name)
param(i, name) == Lookup(params[i], name)

\* header(name): the lookup is by the lower-cased name under both routers
header(i, name) ==
    IF router[i] = "app"
    THEN Nullish(Nullish(Lookup(headers[i], toLowerCase(name)), JNull), JUndefined)
    ELSE Lookup(headers[i], toLowerCase(name))

callValidated(i) == validated(i).threw \in BOOLEAN /\ UNCHANGED vars
callSafe(i) == safe(i).t = "object" /\ UNCHANGED vars
callAll(i) == all(i).t = "object" /\ UNCHANGED vars
callInput(i) == (\A k \in InputKeys : input(i, k, JUndefined).t # "") /\ UNCHANGED vars
callHas(i) == (\A k \in InputKeys : has(i, k) \in BOOLEAN) /\ UNCHANGED vars
callOnly(i) == (\A ks \in SUBSET InputKeys : only(i, ks).t = "object") /\ UNCHANGED vars
callExcept(i) == (\A ks \in SUBSET InputKeys : except(i, ks).t = "object") /\ UNCHANGED vars
callParam(i) == (\A k \in InputKeys : param(i, k).t # "") /\ UNCHANGED vars
callHeader(i) == (\A h \in HeaderNames : header(i, h).t # "") /\ UNCHANGED vars

Next ==
    \/ Tick
    \/ PeerCheckRateLimit
    \/ StoreGet
    \/ \E i \in Active :
         \/ validate(i)
         \/ checkRateLimit(i)
         \/ authorize(i)
         \/ onAuthorizationFailed(i)
         \/ coercion(i)
         \/ beforeValidation(i)
         \/ rules(i)
         \/ onValidationFailed(i)
         \/ afterValidation(i)
         \/ callValidated(i)
         \/ callSafe(i)
         \/ callAll(i)
         \/ callInput(i)
         \/ callHas(i)
         \/ callOnly(i)
         \/ callExcept(i)
         \/ callParam(i)
         \/ callHeader(i)

Spec == Init /\ [][Next]_vars

(***************************************************************************)
(* The factories as operations on an instance not yet built.               *)
(***************************************************************************)
\* a request not yet served: the fields are those of the field initialisers
Unbuilt(reqs) ==
    /\ Fresh
    /\ request \in [Instances -> reqs]
    /\ \A i \in Instances \ Active : request[i] = request[1]
    /\ router = [i \in Instances |-> request[i].router]
    /\ body = [i \in Instances |-> {}]
    /\ shares = [i \in Instances |-> FALSE]
    /\ query = [i \in Instances |-> {}]
    /\ params = [i \in Instances |-> {}]
    /\ headers = [i \in Instances |-> {}]

callFromAppRouter(i) ==
    /\ wrapper[i] = NoWrapper /\ request[i].router = "app"
    /\ fromAppRouter(i, request[i], request[i].routeParams)
    /\ wrapper' = [wrapper EXCEPT ![i] = [name |-> "fromAppRouter", at |-> "done"]]
    /\ outcome' = [outcome EXCEPT ![i] =
                     IF parseBody(request[i]).threw
                     THEN <<[kind |-> "throw", error |-> Exception("fromAppRouter")]>>
                     ELSE @]
    /\ UNCHANGED <<sharedVars, pc, router, p_validated, p_safe, localVars, ghostVars,
                   request, handled, classVars>>

callFromPagesRouter(i) ==
    /\ wrapper[i] = NoWrapper /\ request[i].router = "pages"
    /\ fromPagesRouter(i, request[i], request[i].routeParams)
    /\ wrapper' = [wrapper EXCEPT ![i] = [name |-> "fromPagesRouter", at |-> "done"]]
    /\ UNCHANGED <<sharedVars, pc, router, p_validated, p_safe, localVars, ghostVars,
                   request, handled, outcome, classVars>>

InitFactories == Unbuilt(AppRequests \cup PagesRequests)

NextFactories == \E i \in Active : callFromAppRouter(i) \/ callFromPagesRouter(i)

SpecFactories == InitFactories /\ [][NextFactories]_vars

(***************************************************************************)
(* The invocation wrappers: withRequest, withApiRequest,                   *)
(* createAppRouterWrapper, createPagesRouterWrapper (an instance is built  *)
(* and validate() is awaited), and withSchema, withApiSchema (no instance: *)
(* the body is parsed and handed to the adapter).  The downstream handler  *)
(* is an input: it returns, throws, or returns a promise that rejects.     *)
(***************************************************************************)
MappingOptions == {"onValidationError", "onAuthorizationError", "onError"}
RequestWrappers ==
    {"withRequest", "withApiRequest", "createAppRouterWrapper", "createPagesRouterWrapper"}
ConfigurableWrappers == {"createAppRouterWrapper", "createPagesRouterWrapper"}
SchemaWrappers == {"withSchema", "withApiSchema"}

WrapperRequests ==
    { AppRequest("POST", "multipart/form-data; boundary=x",
                 <<<<"tags", "a">>, <<"tags", "b">>>>, {}, FALSE, <<>>),
      AppRequest("POST", "application/json", <<>>, {<<"name", JStr("a")>>}, FALSE, <<>>),
      PagesRequest(JObj({<<"name", JStr("true")>>, <<"opt", JNull>>}),
                   {<<"opt", JStr("q")>>, <<"id", JStr("9")>>}, {}) }

HandlerErrors == {ValidationError(JObj({})), AuthorizationError, Exception("handler")}
HandlerOutcomes ==
    {[how |-> "returns"]}
    \cup {[how |-> h, error |-> e] : h \in {"throws", "rejects"}, e \in HandlerErrors}

\* what the callable ends with
Response(from) == [kind |-> "response", from |-> from]
Mapped(option, e) == [kind |-> "response", from |-> option, error |-> e]
Thrown(e) == [kind |-> "throw", error |-> e]

\* the catch block of the configurable wrappers
Dispatch(options, e) ==
    IF e.kind = "ValidationError" /\ "onValidationError" \in options
    THEN Mapped("onValidationError", e)
    ELSE IF e.kind = "AuthorizationError" /\ "onAuthorizationError" \in options
    THEN Mapped("onAuthorizationError", e)
    ELSE IF "onError" \in options
    THEN Mapped("onError", e)
    ELSE Thrown(e)

\* whether the try block catches what the handler ended with: the Pages Router
\* wrapper awaits the handler, the App Router wrapper returns its promise
Catches(name, h) ==
    \/ name = "createPagesRouterWrapper"
    \/ name = "createAppRouterWrapper" /\ h.how = "throws"

\* the callable after validate() has failed with e
ValidateFailed(w, e) ==
    IF w.name \in ConfigurableWrappers THEN Dispatch(w.options, e) ELSE Thrown(e)

\* the callable after the handler has ended
HandlerEnded(w, h) ==
    IF h.how = "returns" THEN Response("handler")
    ELSE IF w.name \in ConfigurableWrappers /\ Catches(w.name, h)
    THEN Dispatch(w.options, h.error)
    ELSE Thrown(h.error)

Serves(i, name, options) ==
    /\ wrapper' = [wrapper EXCEPT ![i] = [name |-> name, at |-> "validate", options |-> options]]
    /\ UNCHANGED <<sharedVars, pc, router, p_validated, p_safe, localVars, ghostVars,
                   request, handled, outcome, classVars>>

\* the callable of withRequest up to `await formRequest.validate()`
withRequest(i) ==
    /\ wrapper[i] = NoWrapper /\ request[i].router = "app"
    /\ fromAppRouter(i, request[i], request[i].routeParams)
    /\ Serves(i, "withRequest", {})

withApiRequest(i) ==
    /\ wrapper[i] = NoWrapper /\ request[i].router = "pages"
    /\ fromPagesRouter(i, request[i], {})
    /\ Serves(i, "withApiRequest", {})

createAppRouterWrapper(i) ==
    /\ wrapper[i] = NoWrapper /\ request[i].router = "app"
    /\ fromAppRouter(i, request[i], request[i].routeParams)
    /\ \E options \in SUBSET MappingOptions : Serves(i, "createAppRouterWrapper", options)

createPagesRouterWrapper(i) ==
    /\ wrapper[i] = NoWrapper /\ request[i].router = "pages"
    /\ fromPagesRouter(i, request[i], {})
    /\ \E options \in SUBSET MappingOptions : Serves(i, "createPagesRouterWrapper", options)

\* const validated = await formRequest.validate(), on the instance just built
formRequestValidate(i) ==
    /\ wrapper[i].at = "validate" /\ calls[i] = <<>>
    /\ validate(i)

\* the callable has ended; what the handler did is kept with it
NotInvoked == [how |-> "none"]
Finished(w, h) == [name |-> w.name, at |-> "done", options |-> w.options, handler |-> h]

\* mutant: the handler is given the instance's body
HandlerArgumentBody(i, e) == JObj(body[i])

\* handler(validated, ...)
HandlerArgument(i, e) == e.data

\* the callable resumes when validate() has ended: the handler is invoked with
\* the data returned, or the failure is thrown or mapped
callHandler(i) ==
    /\ wrapper[i].at = "validate" /\ Ended(i)
    /\ LET e == results[i][1]
           w == wrapper[i]
       IN IF e.kind = "return"
          THEN \E h \in HandlerOutcomes :
                 /\ handled' = [handled EXCEPT ![i] = Append(@, HandlerArgument(i, e))]
                 /\ outcome' = [outcome EXCEPT ![i] = <<HandlerEnded(w, h)>>]
                 /\ wrapper' = [wrapper EXCEPT ![i] = Finished(w, h)]
          ELSE /\ outcome' = [outcome EXCEPT ![i] = <<ValidateFailed(w, e)>>]
               /\ wrapper' = [wrapper EXCEPT ![i] = Finished(w, NotInvoked)]
               /\ UNCHANGED handled
    /\ UNCHANGED <<sharedVars, pc, requestVars, fieldVars, localVars, ghostVars, request, classVars>>

Parses(i, name, b) ==
    /\ wrapper' = [wrapper EXCEPT ![i] = [name |-> name, at |-> "adapter", body |-> b]]
    /\ UNCHANGED <<sharedVars, pc, requestVars, fieldVars, localVars, ghostVars,
                   request, handled, outcome, classVars>>

\* the callable of withSchema up to `await adapter.validate(body)`
withSchema(i) ==
    /\ wrapper[i] = NoWrapper /\ request[i].router = "app"
    /\ Parses(i, "withSchema", JObj(parseRequestBody(request[i])))

withApiSchema(i) ==
    /\ wrapper[i] = NoWrapper /\ request[i].router = "pages"
    /\ Parses(i, "withApiSchema", request[i].body)

\* mutant: the result of the adapter is not looked at
SchemaFailsNever(r) == FALSE

\* if (!result.success) throw new ValidationError(result.errors || {})
SchemaFails(r) == ~r.success

\* the callable resumes with the adapter's result and throws, or invokes the
\* handler
adapterValidate(i) ==
    /\ wrapper[i].at = "adapter"
    /\ \/ \E r \in AdapterResults(Spread(wrapper[i].body)) :
            /\ wrapper' = [wrapper EXCEPT ![i] =
                             [name |-> @.name, at |-> "done", body |-> @.body, result |-> r]]
            /\ IF SchemaFails(r)
               THEN /\ outcome' = [outcome EXCEPT ![i] =
                                     <<Thrown(ValidationError(Or(r.errors, JObj({}))))>>]
                    /\ UNCHANGED handled
               ELSE \E h \in HandlerOutcomes :
                      /\ handled' = [handled EXCEPT ![i] = Append(@, r.data)]
                      /\ outcome' = [outcome EXCEPT ![i] =
                                       <<IF h.how = "returns" THEN Response("handler")
                                         ELSE Thrown(h.error)>>]
       \/ /\ wrapper' = [wrapper EXCEPT ![i] =
                           [name |-> @.name, at |-> "done", body |-> @.body,
                            result |-> [threw |-> TRUE]]]
          /\ outcome' = [outcome EXCEPT ![i] = <<Thrown(Exception("adapter"))>>]
          /\ UNCHANGED handled
    /\ UNCHANGED <<sharedVars, pc, requestVars, fieldVars, localVars, ghostVars, request, classVars>>

InitWrappers == Unbuilt(WrapperRequests)

NextWrappers ==
    \/ PeerCheckRateLimit
    \/ \E i \in Active :
         \/ withRequest(i)
         \/ withApiRequest(i)
         \/ createAppRouterWrapper(i)
         \/ createPagesRouterWrapper(i)
         \/ formRequestValidate(i)
         \/ checkRateLimit(i)
         \/ authorize(i)
         \/ onAuthorizationFailed(i)
         \/ coercion(i)
         \/ beforeValidation(i)
         \/ rules(i)
         \/ onValidationFailed(i)
         \/ afterValidation(i)
         \/ callHandler(i)
         \/ withSchema(i)
         \/ withApiSchema(i)
         \/ adapterValidate(i)

SpecWrappers == InitWrappers /\ [][NextWrappers]_vars

(***************************************************************************)
(* Two requests served at once, each by its own instance, each validated   *)
(* once; their stages interleave in every order.                           *)
(***************************************************************************)
InitConcurrent ==
    /\ Fresh
    /\ BuiltFor(RawRequests)
    /\ request[1] # request[2]

NextConcurrent ==
    \E i \in Instances :
      \/ calls[i] = <<>> /\ validate(i)
      \/ checkRateLimit(i)
      \/ authorize(i)
      \/ onAuthorizationFailed(i)
      \/ coercion(i)
      \/ beforeValidation(i)
      \/ rules(i)
      \/ onValidationFailed(i)
      \/ afterValidation(i)

SpecConcurrent == InitConcurrent /\ [][NextConcurrent]_vars

(***************************************************************************)
(* Concrete subtypes: the validate() runs of an instance whose class has   *)
(* the default coercion() (no options), one beforeValidation hook (one of  *)
(* hookHelpers.transforms, or the hook of StatefulRequest of the tests)    *)
(* and a schema that requires `name` to be a string and returns the data   *)
(* it was given.  The hooks are functions of the instance, so every run of *)
(* an instance executes the same code.                                     *)
(***************************************************************************)
TransformHooks == {"trimStrings", "lowercase", "uppercase"}
Hooks == TransformHooks \cup {"StatefulRequest"}
\* the fields given to lowercase(...fields) and uppercase(...fields)
TransformFields == {"name"}

Subtypes == [beforeValidation : Hooks, counter : {0}]

HookRequests ==
    { AppRequest("POST", "application/json", <<>>, {<<"name", JStr(" A ")>>}, FALSE, <<>>),
      AppRequest("GET", "text/plain", <<>>, {}, FALSE, <<>>),
      PagesRequest(JObj({<<"name", JStr(" A ")>>}), {}, {}) }

\* String(v) of a template literal
String(v) == IF v.t = "string" THEN v.v ELSE v.t

\* the object trimStrings has written to when its loop ends, given the object
\* its local `body` refers to
trimStrings(local) ==
    {<<p[1], IF p[2].t = "string" THEN JStr(trim(p[2].v)) ELSE p[2]>> : p \in local}

\* the copy lowercase(...fields) / uppercase(...fields) has written to, for
\* one field: this.all()[field] = value.toLowerCase()
lowercase(i, field) ==
    LET value == input(i, field, JUndefined)
    IN IF value.t = "string" THEN Put(all(i).v, field, JStr(toLowerCase(value.v))) ELSE all(i).v

uppercase(i, field) ==
    LET value == input(i, field, JUndefined)
    IN IF value.t = "string" THEN Put(all(i).v, field, JStr(toUpperCase(value.v))) ELSE all(i).v

\* the objects the transform of instance i writes to: each is a copy made by
\* all(), which nothing refers to once the hook has returned
Copies(i) ==
    IF subtype[i].beforeValidation = "trimStrings" THEN {trimStrings(all(i).v)}
    ELSE IF subtype[i].beforeValidation = "lowercase"
    THEN {lowercase(i, field) : field \in TransformFields}
    ELSE {uppercase(i, field) : field \in TransformFields}

\* this.counter++; this.body.name = `${this.body.name}-${this.counter}`
StatefulRequest(i) ==
    Put(body[i], "name",
        JStr(String(Lookup(body[i], "name")) \o "-" \o ToString(subtype[i].counter + 1)))

\* this.body once the beforeValidation hook of the subtype has returned: the
\* transforms have written to the objects of Copies(i) only, so they leave
\* this.body as it was
bodyAfterHook(i) ==
    IF subtype[i].beforeValidation \in TransformHooks THEN body[i] ELSE StatefulRequest(i)

\* const coercionOptions = this.coercion(), with the coercion() of the base
\* class, which returns null
coercionDefault(i) ==
    /\ pc[i] = "coercion"
    /\ Called(i, "coercion")
    /\ Goes(i, AfterCoercion)
    /\ UNCHANGED <<sharedVars, requestVars, wrapperVars, classVars, fieldVars, localVars,
                   nth, adapterOk, succeeded>>

\* await this.beforeValidation(), with the hook of the subtype
beforeValidationHook(i) ==
    /\ pc[i] = "beforeValidation"
    /\ subtype[i].counter < MaxRuns
    /\ Called(i, "beforeValidation")
    /\ body' = setBody(i, bodyAfterHook(i))
    /\ request' = IF subtype[i].beforeValidation \in TransformHooks
                  THEN request
                  ELSE written(i, bodyAfterHook(i))
    /\ subtype' = IF subtype[i].beforeValidation \in TransformHooks
                  THEN subtype
                  ELSE [subtype EXCEPT ![i].counter = @ + 1]
    /\ Goes(i, "rules")
    /\ UNCHANGED <<sharedVars, requestVars, wrapper, handled, outcome, formatted, shares,
                   p_validated, p_safe, localVars, nth, adapterOk, succeeded>>

\* the result of the adapter for the schema of the subtype
schemaResult(data) ==
    IF Lookup(data, "name").t = "string"
    THEN [success |-> TRUE, data |-> JObj(data), errors |-> JUndefined]
    ELSE [success |-> FALSE, data |-> JUndefined,
          errors |-> JObj({<<"name", <<"Required">>>>})]

\* const result = await validator.validate(this.getDataForValidation(), ...),
\* with the schema of the subtype
rulesOfSubtype(i) ==
    /\ pc[i] = "rules"
    /\ Called(i, "rules")
    /\ LET r == schemaResult(getDataForValidation(i))
       IN IF StoresValidated(r)
          THEN /\ p_validated' = [p_validated EXCEPT ![i] = r.data]
               /\ p_safe' = [p_safe EXCEPT ![i] = r.data]
               /\ adapterOk' = [adapterOk EXCEPT ![i] = r.success]
               /\ Goes(i, "afterValidation")
               /\ UNCHANGED errors
          ELSE /\ errors' = [errors EXCEPT ![i] = ErrorsOf(r)]
               /\ Goes(i, "onValidationFailed")
               /\ UNCHANGED <<p_validated, p_safe, adapterOk>>
    /\ UNCHANGED <<sharedVars, requestVars, wrapperVars, classVars, body, shares, rl, result,
                   isAuthorized, nth, succeeded>>

InitHooks ==
    /\ now = 0
    /\ store = [k \in Keys |-> NoState]
    /\ FreshInstances
    /\ formatted = NoFormatting
    /\ BuiltFor(HookRequests)
    /\ subtype \in [Instances -> Subtypes]
    /\ \A i \in Instances : request[i] = request[1] /\ subtype[i] = subtype[1]

NextHooks ==
    \E i \in Active :
      \/ validate(i)
      \/ checkRateLimit(i)
      \/ authorize(i)
      \/ onAuthorizationFailed(i)
      \/ coercionDefault(i)
      \/ beforeValidationHook(i)
      \/ rulesOfSubtype(i)
      \/ onValidationFailed(i)
      \/ afterValidation(i)

SpecHooks == InitHooks /\ [][NextHooks]_vars

(***************************************************************************)
(* The in-memory store on its own, in a process that lives long: requests  *)
(* of ever new clients are counted (checkRateLimit calls increment), time  *)
(* passes, and the public get and set of the store are called.             *)
(***************************************************************************)
InitStore ==
    /\ now = 0
    /\ store = [k \in StoreKeys |-> NoState]
    /\ FreshInstances
    /\ subtype = [i \in Instances |-> AnySubtype]
    /\ formatted = NoFormatting
    /\ BuiltFor(RawRequests)
    /\ \A i \in Instances : request[i].router = "pages"

NextStore == Tick \/ PeerCheckRateLimit \/ StoreGet \/ StoreSet

SpecStore == InitStore /\ [][NextStore]_vars

(***************************************************************************)
(* The errors of a failed schema validation: ZodAdapter.formatZodErrors    *)
(* builds the FieldErrors from the issues, in reported order, and          *)
(* ValidationError.getAllMessages flattens them.  An object is the         *)
(* sequence of its <<key, value>> properties in insertion order, which is  *)
(* the order Object.values iterates string keys in.                        *)
(***************************************************************************)
IssuePaths == {"", "email", "name"}
IssueMessages == {"Required", "Invalid"}
Issues == [path : IssuePaths, message : IssueMessages]
IssueLists == UNION {[1..n -> Issues] : n \in 1..MaxIssues}
CustomMessages == { {}, {<<"email", JStr("Bad email")>>} }

\* const path = issue.path.join('.'); const fieldName = path || '_root'
fieldNameOf(issue) == IF issue.path = "" THEN "_root" ELSE issue.path

\* the custom message of the field if there is one, else the message of the
\* issue (none of the messages contains the name of a field, so the
\* replacement of field references changes nothing)
messageOf(issue, customMessages) ==
    IF Truthy(Lookup(customMessages, fieldNameOf(issue)))
    THEN Lookup(customMessages, fieldNameOf(issue)).v
    ELSE issue.message

\* mutant: the message replaces what the field has so far
pushReplacing(errs, key, message) ==
    IF \E n \in 1..Len(errs) : errs[n][1] = key
    THEN [n \in 1..Len(errs) |-> IF errs[n][1] = key THEN <<key, <<message>>>> ELSE errs[n]]
    ELSE Append(errs, <<key, <<message>>>>)

\* if (!errors[fieldName]) errors[fieldName] = []; errors[fieldName].push(message)
push(errs, key, message) ==
    IF \E n \in 1..Len(errs) : errs[n][1] = key
    THEN [n \in 1..Len(errs) |->
            IF errs[n][1] = key THEN <<key, Append(errs[n][2], message)>> ELSE errs[n]]
    ELSE Append(errs, <<key, <<message>>>>)

\* formatZodErrors(error, config): for (const issue of error.issues) ...
RECURSIVE formatZodErrors(_, _)
formatZodErrors(issues, customMessages) ==
    IF issues = <<>> THEN <<>>
    ELSE LET n == Len(issues)
         IN push(formatZodErrors(SubSeq(issues, 1, n - 1), customMessages),
                 fieldNameOf(issues[n]), messageOf(issues[n], customMessages))

\* Object.values(errors)
ObjectValues(errs) == [n \in 1..Len(errs) |-> errs[n][2]]

\* arrays.flat()
RECURSIVE flat(_)
flat(arrays) ==
    IF arrays = <<>> THEN <<>>
    ELSE flat(SubSeq(arrays, 1, Len(arrays) - 1)) \o arrays[Len(arrays)]

\* getAllMessages(): Object.values(this.errors).flat()
getAllMessages(errs) == flat(ObjectValues(errs))

FormattingVars ==
    <<sharedVars, pc, requestVars, fieldVars, localVars, ghostVars, wrapperVars, subtype>>

\* validateSync after safeParse has failed: the errors of the result
callFormatZodErrors ==
    /\ formatted.at = "issues"
    /\ formatted' = [at |-> "errors", issues |-> formatted.issues,
                     messages |-> formatted.messages,
                     errors |-> formatZodErrors(formatted.issues, formatted.messages)]
    /\ UNCHANGED FormattingVars

\* new ValidationError(errors).getAllMessages()
callGetAllMessages ==
    /\ formatted.at = "errors"
    /\ formatted' = [at |-> "flat", issues |-> formatted.issues,
                     messages |-> formatted.messages, errors |-> formatted.errors,
                     all |-> getAllMessages(formatted.errors)]
    /\ UNCHANGED FormattingVars

InitErrors ==
    /\ now = 0
    /\ store = [k \in Keys |-> NoState]
    /\ FreshInstances
    /\ subtype = [i \in Instances |-> AnySubtype]
    /\ BuiltFor(RawRequests)
    /\ \A i \in Instances : request[i].router = "pages"
    /\ \E issues \in IssueLists, customMessages \in CustomMessages :
         formatted = [at |-> "issues", issues |-> issues, messages |-> customMessages]

NextErrors == callFormatZodErrors \/ callGetAllMessages

SpecErrors == InitErrors /\ [][NextErrors]_vars

(***************************************************************************)
(* Properties.                                                             *)
(***************************************************************************)
InCalls(i, stage) == \E n \in DOMAIN calls[i] : calls[i][n] = stage
ValidationStages ==
    {"coercion", "beforeValidation", "rules", "onValidationFailed", "afterValidation"}
LaterStages == ValidationStages \cup {"authorize", "onAuthorizationFailed"}
TypedFailures == {"RateLimitError", "AuthorizationError", "ValidationError"}

\* C1 as stated: a run in which authorize() resolved falsy invokes none of
\* coercion, beforeValidation, the adapter, onValidationFailed, afterValidation,
\* and ends by throwing AuthorizationError.
C1_AuthorizationErrorAlways ==
    \A i \in Instances :
      isAuthorized[i] = "false" =>
        /\ \A st \in ValidationStages : ~InCalls(i, st)
        /\ pc[i] \in {"onAuthorizationFailed", "idle"}
        /\ pc[i] = "idle" => results[i] = <<AuthorizationError>>

\* C1 amended: a run in which authorize() resolved falsy invokes none of the
\* validation stages and ends by throwing AuthorizationError, or the exception
\* that onAuthorizationFailed() raised.
C1_AuthorizationPrecedesValidation ==
    \A i \in Instances :
      isAuthorized[i] = "false" =>
        /\ \A st \in ValidationStages : ~InCalls(i, st)
        /\ pc[i] \in {"onAuthorizationFailed", "idle"}
        /\ pc[i] = "idle" =>
             results[i] \in {<<AuthorizationError>>, <<Exception("onAuthorizationFailed")>>}

C1_Witness ==
    \E i \in Instances :
      isAuthorized[i] = "false" /\ pc[i] = "idle" /\ results[i] = <<AuthorizationError>>

\* C2: when the rate-limit check reports the request over the limit, the run
\* ends there with RateLimitError carrying that result, and has invoked no
\* later stage.
C2_RateLimitShortCircuits ==
    \A i \in Instances :
      ~result[i].allowed =>
        /\ pc[i] = "idle"
        /\ results[i] = <<RateLimitError(result[i])>>
        /\ \A st \in LaterStages : ~InCalls(i, st)

C2_Witness ==
    \E i \in Instances : ~result[i].allowed /\ pc[i] = "idle" /\ calls[i] = <<"rateLimit">>

\* C3 as stated: an ended run has exactly one outcome, and it is one of
\* RateLimitError, AuthorizationError, ValidationError, successful return.
C3_FourOutcomes ==
    \A i \in Instances :
      /\ pc[i] # "idle" => results[i] = <<>>
      /\ Ended(i) =>
           /\ Len(results[i]) = 1
           /\ results[i][1].kind \in TypedFailures \cup {"return"}

\* C3 amended: an ended run has exactly one outcome: one of the three typed
\* failures, a successful return, or an exception raised by a callback of the
\* subtype (rate-limit callbacks, authorize, a hook, a coercion transform, the
\* adapter), which propagates as it is.
C3_ExactlyOneOutcome ==
    \A i \in Instances :
      /\ pc[i] # "idle" => results[i] = <<>>
      /\ Ended(i) =>
           /\ Len(results[i]) = 1
           /\ results[i][1].kind \in TypedFailures \cup {"return", "exception"}
           /\ results[i][1].kind = "RateLimitError" => calls[i] = <<"rateLimit">>
           /\ results[i][1].kind = "AuthorizationError" => isAuthorized[i] = "false"
           /\ results[i][1].kind = "ValidationError" => InCalls(i, "onValidationFailed")
           /\ results[i][1].kind = "return" => InCalls(i, "afterValidation")

C3_Witness ==
    \E i \in Instances : Ended(i) /\ results[i] = <<Exception("beforeValidation")>>

\* C4: validated data is readable through validated() exactly when some run
\* reached the adapter call and the adapter reported success.
C4_ReadableIffAdapterSucceeded ==
    \A i \in Instances : ~validated(i).threw <=> adapterOk[i]

\* C5: while no validate() run has succeeded, validated() raises a plain Error.
C5_ValidatedThrowsBeforeSuccess ==
    \A i \in Instances :
      ~succeeded[i] /\ pc[i] = "idle" =>
        validated(i).threw /\ validated(i).error = PlainError

C7_SafeEqualsValidated ==
    \A i \in Instances :
      /\ calls[i] = <<>> => safe(i) = JObj({})
      /\ succeeded[i] => safe(i) = p_validated[i]

\* C7 amended: safe() always returns a mapping; it is empty before any run;
\* after a successful run it equals the validated data when that is a
\* mapping, and is empty when the validated data is null or undefined.
C7_SafeIsSpreadOfValidated ==
    \A i \in Instances :
      /\ safe(i).t = "object"
      /\ calls[i] = <<>> => safe(i) = JObj({})
      /\ succeeded[i] /\ p_validated[i].t = "object" => safe(i) = p_validated[i]
      /\ succeeded[i] /\ p_validated[i].t # "object" => safe(i) = JObj({})

C7_Witness ==
    \E i \in Instances :
      succeeded[i] /\ p_validated[i] = JObj({<<"name", JBool(TRUE)>>, <<"opt", JNull>>})

\* the step at which instance i's checkRateLimit, having made an increment,
\* resumes and reports
Reports(i) ==
    pc[i] = "checkRateLimit" /\ pc'[i] # "checkRateLimit" /\ nth[i] > 0

\* C8: the Nth request of a window, N > maxAttempts, evaluated at a time up
\* to and including resetAt, is rejected with RateLimitError whose remaining
\* is 0 and whose retryAfter is greater than 0.
C8_RejectedWithPositiveRetryAfter ==
    [][\A i \in Instances :
         Reports(i) /\ nth[i] > rl[i].maxAttempts /\ now <= StateOf(i).resetAt =>
           /\ pc'[i] = "idle"
           /\ Len(results'[i]) = 1
           /\ results'[i][1].kind = "RateLimitError"
           /\ results'[i][1].remaining = 0
           /\ results'[i][1].retryAfter > 0]_vars

\* C9: the k-th request of a window, k <= maxAttempts, passes the rate-limit
\* stage with remaining = maxAttempts - k and retryAfter = 0.
C9_AllowedWithRemaining ==
    [][\A i \in Instances :
         Reports(i) /\ nth[i] <= rl[i].maxAttempts =>
           /\ pc'[i] = "authorize"
           /\ result'[i].allowed
           /\ result'[i].remaining = rl[i].maxAttempts - nth[i]
           /\ result'[i].retryAfter = 0]_vars

\* a request reaches the store for key k in this step
Requested(k) == store'[k] # store[k] /\ store'[k] # NoState

\* C10: per key, the first request creates {count: 1, resetAt: now + windowMs};
\* a request while resetAt has not passed adds exactly 1 to count and keeps
\* resetAt; once resetAt has passed get reports the entry absent and the next
\* request starts a fresh window with count 1.
C10_WindowLifecycle ==
    /\ [](\A k \in Keys :
            store[k] # NoState /\ now > store[k].resetAt => getResult(k) = JNull)
    /\ [][\A k \in Keys :
            /\ store'[k] # store[k] =>
                 \/ Requested(k)
                 \/ store'[k] = NoState /\ now > store[k].resetAt
            /\ Requested(k) =>
                 IF store[k] = NoState \/ now > store[k].resetAt
                 THEN \E w \in WindowChoices :
                        store'[k] = [count |-> 1, resetAt |-> now + w]
                 ELSE store'[k] = [count |-> store[k].count + 1,
                                   resetAt |-> store[k].resetAt]
            /\ \A i \in Instances :
                 nth'[i] > 0 /\ nth[i] = 0 =>
                   \E kk \in Keys : Requested(kk) /\ nth'[i] = store'[kk].count]_vars

C10_Witness ==
    \E i \in Instances, k \in Keys :
      /\ pc[i] = "checkRateLimit" /\ nth[i] = 2
      /\ ~rl[i].alias
      /\ store[k] = [count |-> 1, resetAt |-> now + 1000]
      /\ now > 1000

\* C11: concurrent checkRateLimit calls on one key lose no update and each
\* observes its own count: a request reaching the store within a window raises
\* the stored count by exactly 1, the call that made the n-th increment
\* computes its result from count n (so the calls of a window observe the
\* distinct counts 1..N), and it is allowed only if n <= maxAttempts.
C11_DistinctCountsObserved ==
    [][/\ \A k \in Keys :
            Requested(k) /\ store[k] # NoState /\ now <= store[k].resetAt =>
              store'[k].count = store[k].count + 1
       /\ \A i \in Instances :
            Reports(i) =>
              /\ StateOf(i).count = nth[i]
              /\ result'[i].allowed => nth[i] <= rl[i].maxAttempts]_vars

SuccessfulOrder ==
    <<"rateLimit", "authorize", "coercion", "beforeValidation", "rules", "afterValidation">>
FailureHooks == {"onAuthorizationFailed", "onValidationFailed"}
LastCall(i) == calls[i][Len(calls[i])]

C13_ExactlyOneResultHook ==
    \A i \in Instances :
      /\ Ended(i) /\ InCalls(i, "rules") =>
           (InCalls(i, "afterValidation") <=> ~InCalls(i, "onValidationFailed"))
      /\ Ended(i) /\ InCalls(i, "onValidationFailed") =>
           results[i] = <<[kind |-> "ValidationError", errors |-> errors[i]]>>
      /\ ~InCalls(i, "rules") =>
           ~InCalls(i, "afterValidation") /\ ~InCalls(i, "onValidationFailed")

\* C13 amended: a run in which the adapter call returned a result invokes
\* exactly one result hook before it ends: afterValidation iff the result was a
\* success, onValidationFailed iff it was a failure; after onValidationFailed
\* the run ends with ValidationError carrying the errors given to the hook,
\* unless the hook raised, and then with the hook's exception.  A run in which
\* the adapter call itself raised, or which ended before it, invokes neither.
C13_OneResultHookPerAdapterResult ==
    \A i \in Instances :
      /\ ~(InCalls(i, "afterValidation") /\ InCalls(i, "onValidationFailed"))
      /\ InCalls(i, "afterValidation") =>
           InCalls(i, "rules") /\ adapterOk[i] /\ errors[i] = NoErrors
      /\ InCalls(i, "onValidationFailed") =>
           InCalls(i, "rules") /\ errors[i] # NoErrors
      /\ Ended(i) /\ InCalls(i, "rules")
         /\ ~InCalls(i, "afterValidation") /\ ~InCalls(i, "onValidationFailed") =>
           results[i] = <<[kind |-> "exception", from |-> "rules"]>>
      /\ Ended(i) /\ InCalls(i, "onValidationFailed") =>
           results[i] \in {<<[kind |-> "ValidationError", errors |-> errors[i]]>>,
                           <<[kind |-> "exception", from |-> "onValidationFailed"]>>}
      /\ Ended(i) /\ results[i][1].kind \in {"RateLimitError", "AuthorizationError"} =>
           ~InCalls(i, "afterValidation") /\ ~InCalls(i, "onValidationFailed")

C13_Witness ==
    \E i \in Instances :
      /\ Ended(i) /\ LastCall(i) = "onValidationFailed"
      /\ results[i] = <<ValidationError(JObj({<<"name", <<"Required">>>>}))>>

\* C14: onAuthorizationFailed is invoked only in a run in which authorize()
\* resolved falsy; in such a run it is invoked, and has completed, before
\* AuthorizationError is raised; when the hook raises, the run ends with the
\* hook's exception.
C14_HookBeforeAuthorizationError ==
    \A i \in Instances :
      /\ InCalls(i, "onAuthorizationFailed") => isAuthorized[i] = "false"
      /\ pc[i] = "onAuthorizationFailed" =>
           results[i] = <<>> /\ ~InCalls(i, "onAuthorizationFailed")
      /\ Ended(i) /\ isAuthorized[i] = "false" =>
           /\ LastCall(i) = "onAuthorizationFailed"
           /\ results[i] \in {<<[kind |-> "AuthorizationError", message |-> "Unauthorized"]>>,
                               <<[kind |-> "exception", from |-> "onAuthorizationFailed"]>>}
      /\ Ended(i) /\ results[i][1].kind = "AuthorizationError" =>
           LastCall(i) = "onAuthorizationFailed"

C14_Witness ==
    \E i \in Instances :
      Ended(i) /\ results[i] = <<Exception("onAuthorizationFailed")>>

RECURSIVE ValuesOf(_, _)
ValuesOf(entries, key) ==
    IF entries = <<>> THEN <<>>
    ELSE LET n == Len(entries)
             before == ValuesOf(SubSeq(entries, 1, n - 1), key)
         IN IF entries[n][1] = key THEN Append(before, JStr(entries[n][2])) ELSE before

\* an instance fromAppRouter has built from a well-formed multipart submission
BuiltFromMultipart(i) ==
    /\ wrapper[i].name = "fromAppRouter" /\ wrapper[i].at = "done"
    /\ request[i].method \in BodyMethods /\ ~request[i].malformed
    /\ includes(request[i].contentType, "multipart/form-data")

\* C20: in the body of an instance built by fromAppRouter from a multipart
\* submission, a field name repeated across parts holds the array of the
\* parts' values in part order (two parts "tags" with "a" and "b" give
\* body.tags = ["a", "b"]), and a name that occurs once holds its value.
C20_RepeatedFieldIsArray ==
    \A i \in Instances :
      BuiltFromMultipart(i) =>
        \A key \in PartNames :
          LET values == ValuesOf(request[i].entries, key)
          IN /\ Len(values) > 1 => Lookup(body[i], key) = JArr(values)
             /\ Len(values) = 1 => Lookup(body[i], key) = values[1]

Done(i) == wrapper[i].at = "done"

\* C16: the callables of withRequest, withApiRequest, createAppRouterWrapper
\* and createPagesRouterWrapper invoke the handler at most once, only after
\* validate() has returned and with the data it returned; when validate()
\* ends in any failure the handler is never invoked.
C16_HandlerOnlyAfterSuccess ==
    \A i \in Instances :
      wrapper[i].name \in RequestWrappers =>
        /\ Len(handled[i]) <= 1
        /\ handled[i] # <<>> =>
             /\ Done(i) /\ Ended(i)
             /\ results[i] = <<[kind |-> "return", data |-> handled[i][1]]>>
             /\ handled[i][1] = p_validated[i]
        /\ Done(i) /\ results[i][1].kind # "return" =>
             handled[i] = <<>> /\ outcome[i][1].kind \in {"throw", "response"}

C16_Witness ==
    \E i \in Instances :
      /\ wrapper[i].name = "createPagesRouterWrapper" /\ Done(i)
      /\ handled[i] = <<JObj({<<"name", JBool(TRUE)>>, <<"opt", JNull>>})>>

\* the options that map one kind of failure
KindMappings == {"onValidationError", "onAuthorizationError"}

\* C17: a callable of createAppRouterWrapper or createPagesRouterWrapper that
\* is configured with the mappings of the failure kinds never raises a
\* RateLimitError, an AuthorizationError or a ValidationError: it returns the
\* mapped result.
C17_MappedKindsNeverRaised ==
    \A i \in Instances :
      /\ wrapper[i].name \in ConfigurableWrappers /\ Done(i)
      /\ KindMappings \subseteq wrapper[i].options
      => ~(outcome[i][1].kind = "throw" /\ outcome[i][1].error.kind \in TypedFailures)

\* C18: the callables of withSchema and withApiSchema invoke no stage of
\* validate() and leave the rate-limit store and every instance alone; when
\* the adapter reports failure they throw ValidationError and do not invoke
\* the handler; when it reports success they invoke the handler once, with
\* the adapter's data.
C18_SchemaWrappersOnlyValidate ==
    /\ [](\A i \in Instances :
            wrapper[i].name \in SchemaWrappers =>
              /\ calls[i] = <<>> /\ pc[i] = "idle" /\ rl[i] = NoRl
              /\ Len(handled[i]) <= 1
              /\ handled[i] # <<>> =>
                   /\ Done(i) /\ "success" \in DOMAIN wrapper[i].result
                   /\ wrapper[i].result.success
                   /\ handled[i] = <<wrapper[i].result.data>>
              /\ Done(i) /\ "success" \in DOMAIN wrapper[i].result =>
                   IF wrapper[i].result.success
                   THEN Len(handled[i]) = 1
                   ELSE /\ handled[i] = <<>>
                        /\ outcome[i][1].kind = "throw"
                        /\ outcome[i][1].error.kind = "ValidationError")
    /\ [][\A i \in Instances :
            wrapper'[i] # wrapper[i] /\ wrapper'[i].name \in SchemaWrappers =>
              UNCHANGED <<store, fieldVars, requestVars, localVars, calls, results>>]_vars

C18_Witness ==
    \E i \in Instances :
      /\ wrapper[i].name = "withSchema" /\ Done(i)
      /\ handled[i] = <<JObj({<<"tags", JArr(<<JStr("a"), JStr("b")>>)>>})>>
      /\ outcome[i] = <<Response("handler")>>

\* the state of one instance: its fields and the locals and history of its run
InstanceState(i) ==
    <<body[i], query[i], params[i], headers[i], p_validated[i], p_safe[i],
      pc[i], result[i], isAuthorized[i], errors[i], calls[i], results[i]>>

\* the bodies an instance built from request r may hold
OwnBodies(r) ==
    {Constructed(r).body}
    \cup {coerceFormData(Constructed(r).body, o) : o \in CoercionChoices}
    \cup HookBodies

Built(i, name) == wrapper[i] = [name |-> name, at |-> "done"]

\* C21: after fromPagesRouter(request, params), param(key) is the value of the
\* request's query for every key the query has, whether or not the explicit
\* route parameters have it too, and the value of the explicit route
\* parameters for every key only they have.
C21_QueryWinsOnConflict ==
    \A i \in Active :
      Built(i, "fromPagesRouter") =>
        \A key \in KeysOf(request[i].query) \cup KeysOf(request[i].routeParams) :
          param(i, key) = IF HasKey(request[i].query, key)
                          THEN Lookup(request[i].query, key)
                          ELSE Lookup(request[i].routeParams, key)

\* an instance built from a query and route parameters that disagree on a key
C21_Witness ==
    \E i \in Active :
      /\ Built(i, "fromPagesRouter")
      /\ \E key \in KeysOf(request[i].query) \cap KeysOf(request[i].routeParams) :
           /\ Lookup(request[i].query, key) # Lookup(request[i].routeParams, key)
           /\ param(i, key) = Lookup(request[i].query, key)
      /\ \E key \in KeysOf(request[i].routeParams) \ KeysOf(request[i].query) :
           param(i, key) = Lookup(request[i].routeParams, key)
      /\ \E key \in KeysOf(request[i].query) \ KeysOf(request[i].routeParams) :
           param(i, key) = Lookup(request[i].query, key)

\* the request carries no body fromAppRouter reads
Bodiless(req) ==
    \/ req.method \notin BodyMethods
    \/ ~ \E s \in {"application/json", "application/x-www-form-urlencoded",
                   "multipart/form-data"} : includes(req.contentType, s)

FailedRun(i) ==
    /\ Ended(i)
    /\ \/ results[i][1].kind \in {"RateLimitError", "AuthorizationError", "ValidationError"}
       \/ /\ results[i][1].kind = "exception"
          /\ results[i][1].from # "afterValidation"

\* C28: the stored validated data and safe data are assigned only in the step
\* in which the adapter has reported success, and a run that ends in a
\* rate-limit, authorization or validation failure or in an exception of a
\* stage before afterValidation has taken no such step: the two fields have
\* the values they had when the run started.
C28_FailedRunKeepsValidated ==
    /\ [][\A i \in Instances :
            p_validated'[i] # p_validated[i] \/ p_safe'[i] # p_safe[i] =>
              /\ pc[i] = "rules" /\ pc'[i] = "afterValidation"
              /\ adapterOk'[i]]_vars
    /\ [](\A i \in Instances :
            /\ FailedRun(i) => ~InCalls(i, "afterValidation")
            /\ pc[i] = "afterValidation" => adapterOk[i])

\* a run has ended in a validation failure on an instance that holds the data
\* of an earlier successful run
C28_Witness ==
    \E i \in Active :
      /\ FailedRun(i) /\ results[i][1].kind = "ValidationError"
      /\ succeeded[i] /\ p_validated[i] \notin {JNull, JUndefined}
      /\ p_safe[i] = p_validated[i]

(***************************************************************************)
(* The increment of the rate-limit stage                                   *)
(***************************************************************************)
\* the count of key k a request arriving now adds to
EffectiveCount(k) == IF StartsNewWindow(store[k], now) THEN 0 ELSE store[k].count

\* instance i starts a run whose checkRateLimit reaches the store / is skipped
ReachesStore(i) == pc[i] = "idle" /\ pc'[i] = "checkRateLimit" /\ rl'[i].alias
Skips(i) == pc[i] = "idle" /\ pc'[i] = "checkRateLimit" /\ ~rl'[i].alias

\* instance i starts a run with a configuration whose skip predicate is
\* absent or false
StartsUnskipped(i) ==
    \/ ReachesStore(i)
    \/ pc[i] = "idle" /\ results[i] # results'[i] /\ results'[i] = <<Exception("key")>>

\* the store has the count of the key of instance i raised by one
Raised(i) ==
    \E k \in Keys :
      /\ rl'[i].alias /\ rl'[i].key = k
      /\ store'[k].count = EffectiveCount(k) + 1
      /\ \A other \in Keys \ {k} : store'[other] = store[other]

\* a later stage of the run of instance i takes a step
LaterStage(i) == pc[i] # "idle" /\ pc'[i] # pc[i]

\* C29 as stated: every run with a rate-limit configuration whose skip
\* predicate is absent or false raises the count of the key by exactly 1, no
\* later stage of the run changes the store, and a skipped run leaves the
\* store unchanged.
C29_EveryUnskippedRunIncrements ==
    [][\A i \in Active :
         /\ StartsUnskipped(i) => Raised(i)
         /\ Skips(i) => store' = store
         /\ LaterStage(i) => store' = store]_vars

\* C29, amended: every run whose checkRateLimit reaches store.increment (the
\* skip predicate is absent or false and neither rateLimit(), skip nor key
\* has thrown) raises the count of the key by exactly 1; no later stage of the
\* run changes the store, whatever the run ends in; a run that is skipped, or
\* whose rateLimit(), skip or key callback throws, leaves the store unchanged.
C29_IncrementKept ==
    [][\A i \in Active :
         /\ ReachesStore(i) => Raised(i)
         /\ Skips(i) => store' = store
         /\ LaterStage(i) => store' = store
         /\ pc[i] = "idle" /\ pc'[i] = "idle" /\ results'[i] # results[i] =>
              store' = store]_vars

\* a run over the limit has been rejected and the count it raised is still in
\* the store
C29_Witness ==
    \E i \in Active, k \in Keys :
      /\ Ended(i) /\ results[i][1].kind = "RateLimitError"
      /\ store[k].count > 1 /\ store[k].count > results[i][1].limit

(***************************************************************************)
(* The two configurable wrappers side by side                              *)
(***************************************************************************)
\* what the callable made by the wrapper `name` ends with, for the options,
\* the end of validate() and the handler outcome of wrapper record w
EndsWith(name, w, e) ==
    IF e.kind = "return"
    THEN HandlerEnded([w EXCEPT !.name = name], w.handler)
    ELSE ValidateFailed([w EXCEPT !.name = name], e)

\* C30: for the same configured mappings and the same error, raised by
\* validate() or by the handler (thrown or as a rejection), the callables of
\* createAppRouterWrapper and createPagesRouterWrapper end the same way: with
\* the same mapped response or with the same error re-raised.
C30_SameDispatch ==
    \A i \in Active :
      wrapper[i].name \in ConfigurableWrappers /\ wrapper[i].at = "done" =>
        \A name \in ConfigurableWrappers :
          outcome[i] = <<EndsWith(name, wrapper[i], results[i][1])>>

(***************************************************************************)
(* The raw request during validate()                                       *)
(***************************************************************************)
\* C25: the raw request is read-only after construction: no stage of
\* validate() changes what the raw request holds, its parsed body included,
\* whichever factory built the instance; the changes coercion and
\* beforeValidation make to the body are changes of the instance only.
C25_RawRequestReadOnly ==
    [][\A i \in Instances :
         pc[i] # "idle" \/ pc'[i] # "idle" => request'[i] = request[i]]_vars

(***************************************************************************)
(* FieldErrors and their flattening                                        *)
(***************************************************************************)
\* the messages of the issues reported on field key, in reported order
MessagesOn(issues, customMessages, key) ==
    LET on == SelectSeq(issues, LAMBDA issue : fieldNameOf(issue) = key)
    IN [n \in 1..Len(on) |-> messageOf(on[n], customMessages)]

\* the number of messages of the fields before the n-th
RECURSIVE Before(_, _)
Before(errs, n) == IF n <= 1 THEN 0 ELSE Before(errs, n - 1) + Len(errs[n - 1][2])

\* C23: the FieldErrors built from the issues of a failed validation map each
\* of their keys to a non-empty sequence of messages: the messages of the
\* issues reported on that path, in reported order; and getAllMessages()
\* returns the per-field sequences one after the other in the order of the
\* fields, and nothing else.
C23_FieldErrorsNonEmptyAndFlattened ==
    /\ formatted.at \in {"errors", "flat"} =>
         LET errs == formatted.errors
         IN /\ \A n \in 1..Len(errs) :
                 /\ errs[n][2] # <<>>
                 /\ errs[n][2] = MessagesOn(formatted.issues, formatted.messages, errs[n][1])
                 /\ \A m \in 1..Len(errs) : errs[m][1] = errs[n][1] => m = n
            /\ \A k \in 1..Len(formatted.issues) :
                 \E n \in 1..Len(errs) : errs[n][1] = fieldNameOf(formatted.issues[k])
    /\ formatted.at = "flat" =>
         LET errs == formatted.errors
         IN /\ Len(formatted.all) = Before(errs, Len(errs) + 1)
            /\ \A n \in 1..Len(errs) : \A j \in 1..Len(errs[n][2]) :
                 formatted.all[Before(errs, n) + j] = errs[n][2][j]

\* two issues on one path with different messages and an issue on another
\* path between them have been formatted and flattened
C23_Witness ==
    /\ formatted.at = "flat"
    /\ Len(formatted.errors) = 2
    /\ formatted.errors[1][2] = <<"Required", "Invalid">>
    /\ formatted.errors[2][1] = "_root"
    /\ formatted.issues[2].path = ""
    /\ formatted.all = <<"Required", "Invalid", formatted.errors[2][2][1]>>

(***************************************************************************)
(* The growth of the in-memory store                                       *)
(***************************************************************************)
\* the entries of the store whose window has passed
ExpiredEntries(st, t) == {k \in DOMAIN st : st[k] # NoState /\ Expired(st[k], t)}

\* C26: the store prunes its expired entries once its size crosses the
\* threshold: whenever a request has been counted and the store then holds
\* more entries than the threshold, it holds no entry whose window has
\* expired, so the expired entries of clients that never return cannot
\* pile up.
C26_ExpiredEntriesPruned ==
    [][(\E k \in DOMAIN store : Requested(k)) /\ size(store') > CleanupThreshold =>
         ExpiredEntries(store', now') = {}]_vars

(***************************************************************************)
(* Hooks of concrete subtypes                                              *)
(***************************************************************************)
\* C24: re-running validate() computes the same: on an instance that has
\* completed a successful run, a later run of the same request with the same
\* hooks that reaches the adapter succeeds again, and stores the same
\* validated data as the earlier run.
C24_RerunComputesTheSame ==
    [][\A i \in Active :
         succeeded[i] /\ pc[i] = "rules" /\ pc'[i] # "rules" =>
           /\ pc'[i] = "afterValidation"
           /\ p_validated'[i] = p_validated[i]]_vars

\* C27: with trimStrings (lowercase(...fields), uppercase(...fields)) as the
\* beforeValidation hook, the body the adapter is given after the hook is the
\* body with every top-level string trimmed (with the named string fields
\* lower-cased, upper-cased).
C27_TransformsReachAdapter ==
    [][\A i \in Active :
         /\ subtype[i].beforeValidation \in TransformHooks
         /\ pc[i] = "beforeValidation" /\ pc'[i] = "rules"
         => body'[i] \in Copies(i)]_vars

====
